---- MODULE Spec2Model ----
(***************************************************************************)
(* Model of sa_stocks.py: the resumable scoring pipeline of main(), the    *)
(* checkpoint file state.pkl, the two append-only tables, the retry        *)
(* decorator of requests_get_with_retry, the two sentiment strategies and  *)
(* the score aggregation.                                                  *)
(*                                                                         *)
(* Numbers: compound polarity scores are in hundredths (-100 .. 100 for    *)
(* -1.0 .. 1.0); label weights are doubled (2 for 1, 1 for 0.5); a score   *)
(* is an exact fraction <<numerator, denominator>> in lowest terms.        *)
(***************************************************************************)
EXTENDS Integers, Sequences, FiniteSets, TLC

\* ------------------------------------------------------------------ bounds
MaxRuns == 2          \* invocations of main() in one behaviour
FaultyRuns == 1       \* of which the first FaultyRuns meet failing providers
MaxArticles == 2      \* articles behind one call of the aggregator on its own
MaxRows == 3          \* rows in the list given to the report sort on its own

\* ------------------------------------------------------- program constants
stop_max_attempt_number == 7      \* @retry(stop_max_attempt_number=7)
max_retries_default == 4          \* gpt_sentiment_analysis(max_retries=4)
VolumeHigh == 10
VolumeLow == 5
RsiLow == 30
RsiHigh == 70
NumSignals == 6



\* an absent value (Python None) is <<>>, a present value v is <<v>>
None == <<>>
Some(v) == <<v>>

\* ---------------------------------------------------------------- inputs
Blank == [full |-> FALSE, c |-> 0]
Art(c) == [full |-> TRUE, c |-> c]

\* the ticker lists load_tickers() may return
TickerLists == { <<>>, <<"A">>, <<"A", "B">>, <<"A", "A">> }

\* The providers' answers.  During the first FaultyRuns invocations they may
\* fail or leave values out (faulty = TRUE); afterwards they answer every
\* request, and all that varies is whether there is a new article.
\* data['results'] of the news provider; a ticker gets several stored
\* articles when its news is fetched again (a later run, or a symbol that is
\* twice in the list)
NewsResults(faulty) ==
  IF faulty
  THEN { <<>>, <<Blank>>, <<Art(-90)>>, <<Art(100)>> }
  ELSE { <<>>, <<Art(-90)>> }

\* what requests.get(url).json() gives get_stock_news
NewsResponses(faulty) ==
  {[kind |-> "exception", results |-> <<>>], [kind |-> "not_ok", results |-> <<>>]}
    \cup {[kind |-> "OK", results |-> r] : r \in NewsResults(faulty)}

Optional(faulty, values) == IF faulty THEN {None} \cup values ELSE values
RsiValues(faulty) == Optional(faulty, {Some(20)})
MacdValues(faulty) == Optional(faulty, {Some(-1)})
PriceValues(faulty) == Optional(faulty, {Some(80)})
ClosesValues(faulty) == IF faulty THEN { <<>>, <<100, 90>> } ELSE { <<100, 90>> }
\* whether an HTTP request or a call of the language model may fail
MayFail(faulty) == IF faulty THEN BOOLEAN ELSE {FALSE}
GptTexts == {"Very bad", "Positive"}

CompoundValues == -100 .. 100

\* ---------------------------------------------------------------- helpers
\* a membership test that misses the element appended last
RangeButLast(s) == {s[k] : k \in 1 .. Len(s) - 1}

\* the elements of a list: ticker in processed_tickers
Range(s) == {s[k] : k \in 1 .. Len(s)}

RECURSIVE Gcd(_, _)
Gcd(a, b) == IF b = 0 THEN a ELSE Gcd(b, a % b)

Abs(x) == IF x < 0 THEN -x ELSE x

\* the fraction n/d (d > 0) in lowest terms
Frac(n, d) ==
  LET g == Gcd(Abs(n), d) IN <<n \div g, d \div g>>

\* s1 < s2 for fractions with positive denominators
FracLess(s1, s2) == s1[1] * s2[2] < s2[1] * s1[2]

RECURSIVE SeqMax(_)
SeqMax(s) ==
  IF Len(s) = 1 THEN s[1]
  ELSE LET m == SeqMax(Tail(s)) IN IF s[1] > m THEN s[1] ELSE m

RECURSIVE SeqMin(_)
SeqMin(s) ==
  IF Len(s) = 1 THEN s[1]
  ELSE LET m == SeqMin(Tail(s)) IN IF s[1] < m THEN s[1] ELSE m

\* ------------------------------------------------------ sentiment weights
\* sentiment_scores of main(), doubled
sentiment_scores(label) ==
  CASE label = "Very good" -> 2
    [] label = "Good" -> 1
    [] label = "Neutral" -> 0
    [] label = "UNKNOWN" -> 0
    [] label = "ERROR" -> 0
    [] label = "Error" -> 0
    [] label = "Bad" -> -1
    [] label = "Very bad" -> -2

RECURSIVE SumWeights(_)
SumWeights(labels) ==
  IF labels = <<>> THEN 0
  ELSE sentiment_scores(Head(labels)) + SumWeights(Tail(labels))

\* ------------------------------------------------------- lexicon strategy
labels == <<"Very bad", "Bad", "Neutral", "Good", "Very good">>
breaks == <<-100, -80, -35, 35, 80, 100>>

\* pd.IntervalIndex.from_breaks(breaks, closed='left').get_loc(x):
\* the position of the interval [breaks[k], breaks[k+1]) holding x, 0 when
\* no interval holds it (pandas raises KeyError)
get_loc(x) ==
  LET hits == {k \in 1 .. Len(breaks) - 1 : breaks[k] <= x /\ x < breaks[k + 1]}
  IN IF hits = {} THEN 0 ELSE CHOOSE k \in hits : TRUE

\* labels[idx.get_loc(compound)], "KeyError" when get_loc raises
VaderLabel(c) == IF get_loc(c) = 0 THEN "KeyError" ELSE labels[get_loc(c)]

\* vader_sentiment_analysis over the rows of one ticker: the label list, or
\* <<"KeyError">> alone when a classification raises
RECURSIVE vader_sentiment_analysis(_)
vader_sentiment_analysis(arts) ==
  IF arts = <<>> THEN <<>>
  ELSE LET a == Head(arts)
           rest == vader_sentiment_analysis(Tail(arts))
       IN IF ~a.full THEN rest
          ELSE IF VaderLabel(a.c) = "KeyError" \/ rest = <<"KeyError">>
               THEN <<"KeyError">>
               ELSE <<VaderLabel(a.c)>> \o rest

\* ---------------------------------------------------- generative strategy
Canonical == {"Very good", "Good", "Neutral", "Bad", "Very bad"}

\* the label taken from the first line of the provider's answer
ParseSentiment(text) == IF text \in Canonical THEN text ELSE "UNKNOWN"

\* the first article at or after position k for which the while loop of
\* gpt_sentiment_analysis makes a call, Len(arts) + 1 when there is none
RECURSIVE NextCall(_, _, _)
NextCall(arts, k, retries) ==
  IF k > Len(arts) THEN Len(arts) + 1
  ELSE IF arts[k].full /\ retries > 0 THEN k
  ELSE NextCall(arts, k + 1, retries)

HasFull(arts) == \E k \in 1 .. Len(arts) : arts[k].full
NumFull(arts) == Cardinality({k \in 1 .. Len(arts) : arts[k].full})

\* ------------------------------------------------------------ retry policy
\* a stop test that lets one attempt too many through
ShouldStopLate(n) == n > stop_max_attempt_number

\* stop_max_attempt_number=7: no further attempt after attempt number 7
ShouldStop(n) == n >= stop_max_attempt_number

\* --------------------------------------------------------- score aggregator
Sign3(lowCond, highCond) == IF lowCond THEN -1 ELSE IF highCond THEN 1 ELSE 0

\* the same with a divisor that misses two of the six signals
calculate_aggregated_score_div4(vader_total, gpt_total, historical_price_low, historical_price_high, recent_price, news_volume, rsi, macd, num_articles) ==
  LET price_score == Sign3(recent_price < historical_price_low,
                           recent_price > historical_price_high)
      news_volume_score == IF news_volume > VolumeHigh THEN 1
                           ELSE IF news_volume < VolumeLow THEN -1 ELSE 0
      rsi_score == Sign3(rsi < RsiLow, rsi > RsiHigh)
      macd_score == Sign3(macd < 0, macd > 0)
  IN Frac(vader_total + gpt_total
            + 2 * num_articles * (price_score + news_volume_score + rsi_score + macd_score),
          2 * num_articles * 4)

\* the same with thresholds that count a value on the threshold as beyond it
calculate_aggregated_score_nonstrict(vader_total, gpt_total, historical_price_low, historical_price_high, recent_price, news_volume, rsi, macd, num_articles) ==
  LET price_score == Sign3(recent_price <= historical_price_low,
                           recent_price >= historical_price_high)
      news_volume_score == IF news_volume >= VolumeHigh THEN 1
                           ELSE IF news_volume <= VolumeLow THEN -1 ELSE 0
      rsi_score == Sign3(rsi <= RsiLow, rsi >= RsiHigh)
      macd_score == Sign3(macd < 0, macd > 0)
  IN Frac(vader_total + gpt_total
            + 2 * num_articles * (price_score + news_volume_score + rsi_score + macd_score),
          2 * num_articles * NumSignals)

\* the inputs are present and num_articles > 0; the sums are doubled
calculate_aggregated_score(vader_total, gpt_total, historical_price_low, historical_price_high, recent_price, news_volume, rsi, macd, num_articles) ==
  LET price_score == Sign3(recent_price < historical_price_low,
                           recent_price > historical_price_high)
      news_volume_score == IF news_volume > VolumeHigh THEN 1
                           ELSE IF news_volume < VolumeLow THEN -1 ELSE 0
      rsi_score == Sign3(rsi < RsiLow, rsi > RsiHigh)
      macd_score == Sign3(macd < 0, macd > 0)
  IN Frac(vader_total + gpt_total
            + 2 * num_articles * (price_score + news_volume_score + rsi_score + macd_score),
          2 * num_articles * NumSignals)

\* ------------------------------------------------------------- report sort
\* an insertion that puts the row before the rows of equal score
RECURSIVE InsertDescBeforeEqual(_, _)
InsertDescBeforeEqual(r, s) ==
  IF s = <<>> THEN <<r>>
  ELSE IF ~FracLess(r.score, Head(s).score) THEN <<r>> \o s
  ELSE <<Head(s)>> \o InsertDescBeforeEqual(r, Tail(s))

\* insert row r into a list sorted by score descending, after equal scores
RECURSIVE InsertDesc(_, _)
InsertDesc(r, s) ==
  IF s = <<>> THEN <<r>>
  ELSE IF FracLess(Head(s).score, r.score) THEN <<r>> \o s
  ELSE <<Head(s)>> \o InsertDesc(r, Tail(s))

\* report_data.sort(key=lambda x: x[1], reverse=True): stable
RECURSIVE SortDesc(_)
SortDesc(s) ==
  IF s = <<>> THEN <<>>
  ELSE InsertDesc(s[Len(s)], SortDesc(SubSeq(s, 1, Len(s) - 1)))

\* ================================================================== state
VARIABLES
  tickers,            \* load_tickers(): column 2 of Tickers.csv
  file,               \* state.pkl
  newsDB,             \* table news_articles, the rows of each ticker in order
  scoreDB,            \* table sentiment_scores, in insertion order
  reports,            \* what print_report() was given, one entry per report
  run,                \* number of main() invocations started
  pc,                 \* position in main()
  outcome,            \* how the current invocation stands
  cause,              \* the exception that ended it, if any
  loaded,             \* what the load of state.pkl met
  start_pt,           \* processed_tickers as loaded
  fetched,            \* tickers get_stock_news was called for in this run
  processed_tickers, report_data, news_data, rsi_data, macd_data,
  i,                  \* enumerate() position of the running pass
  attempt, res,       \* requests_get_with_retry: attempts made, state of the call
  vader_sentiments, gpt_sentiments,
  gi,                 \* gpt_sentiment_analysis: position in news_articles
  max_retries,        \* gpt_sentiment_analysis: the parameter, counted down
  gpt_calls,          \* provider calls made for each filtered article so far
  recent_price, hist, \* get_recent_price(), get_historical_price()
  news_kind,          \* how the get_stock_news call just made ended
  lex_c, lex_label,   \* one lexicon classification: compound in, label out
  agg_in, agg_out,    \* one call of calculate_aggregated_score: arguments, result
  sort_in, sort_out   \* one call of report_data.sort: list before, list after

durable == <<tickers, file, newsDB, scoreDB, reports, run>>
locals == <<processed_tickers, report_data, news_data, rsi_data, macd_data, i,
            attempt, res, vader_sentiments, gpt_sentiments, gi, max_retries,
            gpt_calls, recent_price, hist>>
history == <<outcome, cause, loaded, start_pt, fetched>>
\* the variables of the functions that are also checked on their own
lex == <<lex_c, lex_label, agg_in, agg_out, sort_in, sort_out>>
vars == <<durable, pc, locals, history, news_kind, lex>>

Tickers == {"A", "B"}
Empty == <<>>
RetryPcs == {"rsi", "macd", "price", "hist"}

NoFile == [kind |-> "absent", pt |-> <<>>, rd |-> <<>>]

InitLocals ==
  /\ processed_tickers = <<>> /\ report_data = <<>>
  /\ news_data = Empty /\ rsi_data = Empty /\ macd_data = Empty
  /\ i = 0 /\ attempt = 0 /\ res = "pending"
  /\ vader_sentiments = <<>> /\ gpt_sentiments = <<>>
  /\ gi = 0 /\ max_retries = 0 /\ gpt_calls = <<>>
  /\ recent_price = None /\ hist = <<None, None>>

ResetScratch ==
  /\ news_data' = Empty /\ rsi_data' = Empty /\ macd_data' = Empty
  /\ attempt' = 0 /\ res' = "pending"
  /\ vader_sentiments' = <<>> /\ gpt_sentiments' = <<>>
  /\ gi' = 0 /\ max_retries' = 0 /\ gpt_calls' = <<>>
  /\ recent_price' = None /\ hist' = <<None, None>>

Init ==
  /\ tickers \in TickerLists
  /\ file = NoFile
  /\ newsDB = [t \in Tickers |-> <<>>]
  /\ scoreDB = <<>>
  /\ reports = <<>>
  /\ run = 0
  /\ pc = "idle"
  /\ outcome = "none" /\ cause = "none" /\ loaded = "none"
  /\ start_pt = <<>> /\ fetched = {}
  /\ InitLocals
  /\ news_kind = "none"
  /\ lex_c = 0 /\ lex_label = "unset"
  /\ agg_in = <<>> /\ agg_out = None
  /\ sort_in = <<>> /\ sort_out = None

\* the except clause of main(), lines 453-455: the run ends without a report
\* (when the exception comes before the first loop the handler itself fails
\* on the unbound name ticker, with the same end)
Abort(why) ==
  /\ pc' = "done"
  /\ outcome' = "aborted"
  /\ cause' = why

cur == tickers[i]
Faulty == run <= FaultyRuns

\* --------------------------------------------- main(): load, lines 343-372
Load ==
  /\ pc \in {"idle", "done"}
  /\ run < MaxRuns
  /\ run' = run + 1
  /\ loaded' = file.kind
  /\ fetched' = {}
  /\ ResetScratch
  /\ report_data' = <<>>
  /\ IF file.kind \notin {"absent", "ok"}
     THEN \* pickle.load raises; only FileNotFoundError is handled
          /\ processed_tickers' = <<>> /\ start_pt' = <<>> /\ i' = 0
          /\ Abort("UnpicklingError")
     ELSE /\ processed_tickers' = (IF file.kind = "ok" THEN file.pt ELSE <<>>)
          /\ start_pt' = processed_tickers'
          /\ cause' = "none"
          /\ IF tickers = <<>>
             THEN /\ pc' = "done" /\ outcome' = "no_tickers" /\ i' = 0
             ELSE /\ pc' = "fetch_loop" /\ outcome' = "running" /\ i' = 1
  /\ UNCHANGED <<news_kind, tickers, file, newsDB, scoreDB, reports, lex>>

\* ---------------------------------------- fetch pass, lines 376-392
FetchSkip ==
  /\ pc = "fetch_loop" /\ i <= Len(tickers)
  /\ cur \in Range(processed_tickers)
  /\ i' = i + 1
  /\ UNCHANGED <<news_kind, durable, pc, history, lex, processed_tickers, report_data,
                 news_data, rsi_data, macd_data, attempt, res, vader_sentiments,
                 gpt_sentiments, gi, max_retries, gpt_calls, recent_price, hist>>

\* get_stock_news(ticker), lines 117-133, and news_data[ticker] = news
get_stock_news ==
  /\ pc = "fetch_loop" /\ i <= Len(tickers)
  /\ cur \notin Range(processed_tickers)
  /\ \E response \in NewsResponses(Faulty) :
       LET news == IF response.kind = "OK" THEN response.results ELSE <<>>
       IN /\ newsDB' = [newsDB EXCEPT ![cur] = @ \o news]
          /\ news_data' = (cur :> news) @@ news_data
          /\ news_kind' = response.kind
  /\ fetched' = fetched \cup {cur}
  /\ pc' = "rsi" /\ attempt' = 0 /\ res' = "pending"
  /\ UNCHANGED <<tickers, file, scoreDB, reports, run, lex, outcome, cause, loaded,
                 start_pt, processed_tickers, report_data, rsi_data, macd_data, i,
                 vader_sentiments, gpt_sentiments, gi, max_retries, gpt_calls,
                 recent_price, hist>>

\* one attempt of requests_get_with_retry, lines 110-114
requests_get_with_retry ==
  /\ pc \in RetryPcs /\ res = "pending"
  /\ attempt' = attempt + 1
  /\ news_kind' = "none"
  /\ \E fails \in MayFail(Faulty) :
       res' = IF ~fails THEN "ok"
              ELSE IF ShouldStop(attempt') THEN "raised" ELSE "pending"
  /\ UNCHANGED <<durable, pc, history, lex, processed_tickers, report_data,
                 news_data, rsi_data, macd_data, i, vader_sentiments,
                 gpt_sentiments, gi, max_retries, gpt_calls, recent_price, hist>>

\* the exception of the last attempt propagates to main()'s except clause
RetryExhausted ==
  /\ pc \in RetryPcs /\ res = "raised"
  /\ Abort("RetryError")
  /\ UNCHANGED <<news_kind, durable, lex, loaded, start_pt, fetched, locals>>

\* get_rsi, lines 224-233, and rsi_data[ticker] = rsi
get_rsi ==
  /\ pc = "rsi" /\ res = "ok"
  /\ \E v \in RsiValues(Faulty) : rsi_data' = (cur :> v) @@ rsi_data
  /\ pc' = "macd" /\ attempt' = 0 /\ res' = "pending"
  /\ UNCHANGED <<news_kind, durable, history, lex, processed_tickers, report_data, news_data,
                 macd_data, i, vader_sentiments, gpt_sentiments, gi, max_retries,
                 gpt_calls, recent_price, hist>>

\* get_macd, lines 236-245, and macd_data[ticker] = macd
get_macd ==
  /\ pc = "macd" /\ res = "ok"
  /\ \E v \in MacdValues(Faulty) : macd_data' = (cur :> v) @@ macd_data
  /\ pc' = "fetch_loop" /\ i' = i + 1 /\ attempt' = 0 /\ res' = "pending"
  /\ UNCHANGED <<news_kind, durable, history, lex, processed_tickers, report_data, news_data,
                 rsi_data, vader_sentiments, gpt_sentiments, gi, max_retries,
                 gpt_calls, recent_price, hist>>

FetchDone ==
  /\ pc = "fetch_loop" /\ i > Len(tickers)
  /\ pc' = "score_loop" /\ i' = 1
  /\ UNCHANGED <<news_kind, durable, history, lex, processed_tickers, report_data, news_data,
                 rsi_data, macd_data, attempt, res, vader_sentiments,
                 gpt_sentiments, gi, max_retries, gpt_calls, recent_price, hist>>

\* ----------------------------------------- score pass, lines 396-445
ScoreSkip ==
  /\ pc = "score_loop" /\ i <= Len(tickers)
  /\ cur \in Range(processed_tickers)
  /\ i' = i + 1
  /\ UNCHANGED <<news_kind, durable, pc, history, lex, processed_tickers, report_data,
                 news_data, rsi_data, macd_data, attempt, res, vader_sentiments,
                 gpt_sentiments, gi, max_retries, gpt_calls, recent_price, hist>>

\* line 407, and the entry of gpt_sentiment_analysis (lines 178-181)
Classify ==
  /\ pc = "score_loop" /\ i <= Len(tickers)
  /\ cur \notin Range(processed_tickers)
  /\ LET v == vader_sentiment_analysis(newsDB[cur])
     IN IF v = <<"KeyError">>
        THEN /\ Abort("KeyError")
             /\ UNCHANGED <<vader_sentiments, gpt_sentiments, gi, max_retries,
                            gpt_calls>>
        ELSE /\ vader_sentiments' = v
             /\ gpt_sentiments' = <<>>
             /\ max_retries' = max_retries_default
             /\ gi' = NextCall(newsDB[cur], 1, max_retries_default)
             /\ gpt_calls' = [k \in 1 .. Len(newsDB[cur]) |-> 0]
             /\ pc' = "gpt"
             /\ UNCHANGED <<outcome, cause>>
  /\ UNCHANGED <<news_kind, durable, lex, loaded, start_pt, fetched, processed_tickers,
                 report_data, news_data, rsi_data, macd_data, i, attempt, res,
                 recent_price, hist>>

\* one pass through the try block of gpt_sentiment_analysis, lines 184-220
gpt_sentiment_analysis ==
  /\ pc = "gpt" /\ gi <= Len(newsDB[cur])
  /\ max_retries' = max_retries - 1
  /\ gpt_calls' = [gpt_calls EXCEPT ![gi] = @ + 1]
  /\ \/ \E text \in GptTexts :
          /\ gpt_sentiments' = Append(gpt_sentiments, ParseSentiment(text))
          /\ gi' = NextCall(newsDB[cur], gi + 1, max_retries')
     \/ \* the call raises
        /\ TRUE \in MayFail(Faulty)
        /\ IF max_retries' > 0
           THEN UNCHANGED <<gpt_sentiments, gi>>
           ELSE /\ gpt_sentiments' = Append(gpt_sentiments, "Error")
                /\ gi' = NextCall(newsDB[cur], gi + 1, max_retries')
  /\ UNCHANGED <<news_kind, durable, pc, history, lex, processed_tickers, report_data,
                 news_data, rsi_data, macd_data, i, attempt, res, vader_sentiments,
                 recent_price, hist>>

\* a guard that lets every ticker through
SkipTickerNever(v, g) == FALSE

\* line 410
SkipTicker(v, g) == Len(v) = 0 \/ Len(g) = 0

\* gpt_sentiment_analysis returns; lines 409-412
NoArticlesGuard ==
  /\ pc = "gpt" /\ gi > Len(newsDB[cur])
  /\ IF SkipTicker(vader_sentiments, gpt_sentiments)
     THEN /\ pc' = "score_loop" /\ i' = i + 1
     ELSE /\ pc' = "price" /\ i' = i
  /\ attempt' = 0 /\ res' = "pending"
  /\ gi' = 0 /\ max_retries' = 0 /\ gpt_calls' = <<>>   \* the function's locals end
  /\ UNCHANGED <<news_kind, durable, history, lex, processed_tickers, report_data, news_data,
                 rsi_data, macd_data, vader_sentiments, gpt_sentiments, recent_price,
                 hist>>

\* get_recent_price, lines 263-275
get_recent_price ==
  /\ pc = "price" /\ res = "ok"
  /\ \E v \in PriceValues(Faulty) : recent_price' = v
  /\ pc' = "hist" /\ attempt' = 0 /\ res' = "pending"
  /\ UNCHANGED <<news_kind, durable, history, lex, processed_tickers, report_data, news_data,
                 rsi_data, macd_data, i, vader_sentiments, gpt_sentiments, gi,
                 max_retries, gpt_calls, hist>>

\* get_historical_price, lines 248-260
get_historical_price ==
  /\ pc = "hist" /\ res = "ok"
  /\ \E prices \in ClosesValues(Faulty) :
       hist' = IF prices # <<>> THEN <<Some(SeqMax(prices)), Some(SeqMin(prices))>>
               ELSE <<None, None>>
  /\ pc' = "score" /\ attempt' = 0 /\ res' = "pending"
  /\ UNCHANGED <<news_kind, durable, history, lex, processed_tickers, report_data, news_data,
                 rsi_data, macd_data, i, vader_sentiments, gpt_sentiments, gi,
                 max_retries, gpt_calls, recent_price>>

\* lines 421-441: the score, save_to_db, and the two appends
Score ==
  /\ pc = "score"
  /\ LET vader_total == SumWeights(vader_sentiments)
         gpt_total == SumWeights(gpt_sentiments)
         rsi == rsi_data[cur]
         macd == macd_data[cur]
         num_articles == Len(vader_sentiments)
     IN IF num_articles = 0
        THEN /\ Abort("ZeroDivisionError")
             /\ UNCHANGED <<scoreDB, report_data, processed_tickers>>
        ELSE IF None \in {recent_price, hist[1], hist[2], rsi, macd}
        THEN \* a comparison of None with a number
             /\ Abort("TypeError")
             /\ UNCHANGED <<scoreDB, report_data, processed_tickers>>
        ELSE LET aggregated_score ==
                   calculate_aggregated_score(vader_total, gpt_total, hist[2][1],
                     hist[1][1], recent_price[1], Len(news_data[cur]), rsi[1],
                     macd[1], num_articles)
             IN /\ scoreDB' = Append(scoreDB, [ticker |-> cur, run |-> run,
                                               score |-> aggregated_score])
                /\ report_data' = Append(report_data,
                                         [ticker |-> cur, score |-> aggregated_score])
                /\ processed_tickers' = Append(processed_tickers, cur)
                /\ pc' = "save_open"
                /\ UNCHANGED <<outcome, cause>>
  /\ UNCHANGED <<news_kind, tickers, file, newsDB, reports, run, lex, loaded, start_pt, fetched,
                 news_data, rsi_data, macd_data, i, attempt, res, vader_sentiments,
                 gpt_sentiments, gi, max_retries, gpt_calls, recent_price, hist>>

\* line 444: open("state.pkl", "wb") truncates the file
SaveOpen ==
  /\ pc = "save_open"
  /\ file' = [kind |-> "empty", pt |-> <<>>, rd |-> <<>>]
  /\ pc' = "save_dump"
  /\ UNCHANGED <<news_kind, tickers, newsDB, scoreDB, reports, run, history, lex, locals>>

\* line 445: part of the pickle reaches the file
SaveFlush ==
  /\ pc = "save_dump" /\ file.kind = "empty"
  /\ file' = [kind |-> "truncated", pt |-> <<>>, rd |-> <<>>]
  /\ UNCHANGED <<news_kind, tickers, newsDB, scoreDB, reports, run, pc, history, lex, locals>>

\* line 445: the dump is complete and the file closed
SaveDump ==
  /\ pc = "save_dump"
  /\ file' = [kind |-> "ok", pt |-> processed_tickers, rd |-> report_data]
  /\ pc' = "score_loop" /\ i' = i + 1
  /\ UNCHANGED <<news_kind, tickers, newsDB, scoreDB, reports, run, history, lex,
                 processed_tickers, report_data, news_data, rsi_data, macd_data,
                 attempt, res, vader_sentiments, gpt_sentiments, gi, max_retries,
                 gpt_calls, recent_price, hist>>

\* lines 447-451
Report ==
  /\ pc = "score_loop" /\ i > Len(tickers)
  /\ report_data' = SortDesc(report_data)
  /\ reports' = Append(reports, [run |-> run, rows |-> report_data'])
  /\ pc' = "done" /\ outcome' = "reported"
  /\ UNCHANGED <<news_kind, tickers, file, newsDB, scoreDB, run, lex, cause, loaded, start_pt,
                 fetched, processed_tickers, news_data, rsi_data, macd_data, i,
                 attempt, res, vader_sentiments, gpt_sentiments, gi, max_retries,
                 gpt_calls, recent_price, hist>>

\* the process is killed: only the files and the tables survive
Crash ==
  /\ pc \notin {"idle", "done"}
  /\ pc' = "idle" /\ outcome' = "crashed"
  /\ ResetScratch
  /\ processed_tickers' = <<>> /\ report_data' = <<>> /\ i' = 0
  /\ news_kind' = "none"
  /\ UNCHANGED <<durable, lex, cause, loaded, start_pt, fetched>>

Next ==
  \/ Load
  \/ FetchSkip
  \/ get_stock_news
  \/ requests_get_with_retry
  \/ RetryExhausted
  \/ get_rsi
  \/ get_macd
  \/ FetchDone
  \/ ScoreSkip
  \/ Classify
  \/ gpt_sentiment_analysis
  \/ NoArticlesGuard
  \/ get_recent_price
  \/ get_historical_price
  \/ Score
  \/ SaveOpen
  \/ SaveFlush
  \/ SaveDump
  \/ Report
  \/ Crash

Spec == Init /\ [][Next]_vars

\* ------------------------------- a start after an invocation that died
\* what an earlier invocation left in news_articles for ticker A when it died
\* after get_stock_news and before the first checkpoint write
CrashLeft == {r \in NewsResults(TRUE) : r # <<>>}

InitRestart ==
  /\ tickers \in { <<"A">>, <<"A", "B">> }
  /\ file = NoFile
  /\ newsDB \in {[t \in Tickers |-> IF t = "A" THEN r ELSE <<>>] : r \in CrashLeft}
  /\ scoreDB = <<>>
  /\ reports = <<>>
  /\ run = 0
  /\ pc = "idle"
  /\ outcome = "crashed" /\ cause = "none" /\ loaded = "absent"
  /\ start_pt = <<>> /\ fetched = {"A"}
  /\ InitLocals
  /\ news_kind = "none"
  /\ lex_c = 0 /\ lex_label = "unset"
  /\ agg_in = <<>> /\ agg_out = None
  /\ sort_in = <<>> /\ sort_out = None

SpecRestart == InitRestart /\ [][Next]_vars

\* ------------------------------------- the lexicon classification alone
InitLex ==
  /\ tickers = <<>>
  /\ file = NoFile
  /\ newsDB = [t \in Tickers |-> <<>>]
  /\ scoreDB = <<>>
  /\ reports = <<>>
  /\ run = 0
  /\ pc = "idle"
  /\ outcome = "none" /\ cause = "none" /\ loaded = "none"
  /\ start_pt = <<>> /\ fetched = {}
  /\ InitLocals
  /\ news_kind = "none"
  /\ lex_c \in CompoundValues /\ lex_label = "unset"
  /\ agg_in = <<>> /\ agg_out = None
  /\ sort_in = <<>> /\ sort_out = None

\* line 174 for one article
LexClassify ==
  /\ lex_label = "unset"
  /\ lex_label' = VaderLabel(lex_c)
  /\ UNCHANGED <<durable, pc, locals, history, news_kind, lex_c, agg_in, agg_out,
                 sort_in, sort_out>>

SpecLexicon == InitLex /\ [][LexClassify]_vars

\* ----------------------------------------- the score aggregator alone
\* arguments around every threshold; the sums are doubled like the weights,
\* macd is in tenths (the comparison with 0 does not depend on the unit)
AggInputs ==
  { [n |-> n, vader_total |-> vt, gpt_total |-> gt, low |-> 90, high |-> 100,
     price |-> p, volume |-> v, rsi |-> r, macd |-> m] :
      n \in 1 .. MaxArticles, vt \in -2 * MaxArticles .. 2 * MaxArticles,
      gt \in -2 * MaxArticles .. 2 * MaxArticles,
      p \in {89, 90, 95, 100, 105}, v \in {4, 5, 7, 10, 12},
      r \in {29, 30, 50, 70, 75}, m \in {-5, 0, 5} }

InitAgg ==
  /\ tickers = <<>>
  /\ file = NoFile
  /\ newsDB = [t \in Tickers |-> <<>>]
  /\ scoreDB = <<>>
  /\ reports = <<>>
  /\ run = 0
  /\ pc = "idle"
  /\ outcome = "none" /\ cause = "none" /\ loaded = "none"
  /\ start_pt = <<>> /\ fetched = {}
  /\ InitLocals
  /\ news_kind = "none"
  /\ lex_c = 0 /\ lex_label = "unset"
  /\ agg_in \in {a \in AggInputs : Abs(a.vader_total) <= 2 * a.n /\ Abs(a.gpt_total) <= 2 * a.n}
  /\ agg_out = None
  /\ sort_in = <<>> /\ sort_out = None

\* lines 278-310
AggCall ==
  /\ agg_out = None
  /\ agg_out' = calculate_aggregated_score(agg_in.vader_total, agg_in.gpt_total,
                   agg_in.low, agg_in.high, agg_in.price, agg_in.volume,
                   agg_in.rsi, agg_in.macd, agg_in.n)
  /\ UNCHANGED <<durable, pc, locals, history, news_kind, lex_c, lex_label, agg_in,
                 sort_in, sort_out>>

SpecAggregator == InitAgg /\ [][AggCall]_vars

\* ------------------------------------------------ the report sort alone
\* report_data as main() can hold it before line 448: rows (ticker, score) of
\* different tickers in any order, scores that tie and scores that differ
SortTickers == {"A", "B", "C", "D"}
SortScores == {Frac(-1, 2), Frac(0, 1), Frac(1, 3)}
SortRows == [ticker : SortTickers, score : SortScores]
SortInputs ==
  {s \in UNION {[1 .. n -> SortRows] : n \in 0 .. MaxRows} :
     \A j, k \in 1 .. Len(s) : s[j].ticker = s[k].ticker => j = k}

InitSort ==
  /\ tickers = <<>>
  /\ file = NoFile
  /\ newsDB = [t \in Tickers |-> <<>>]
  /\ scoreDB = <<>>
  /\ reports = <<>>
  /\ run = 0
  /\ pc = "idle"
  /\ outcome = "none" /\ cause = "none" /\ loaded = "none"
  /\ start_pt = <<>> /\ fetched = {}
  /\ InitLocals
  /\ news_kind = "none"
  /\ lex_c = 0 /\ lex_label = "unset"
  /\ agg_in = <<>> /\ agg_out = None
  /\ sort_in \in SortInputs /\ sort_out = None

\* line 448; a sorted list is a one-element tuple holding it, to tell the
\* sorted empty list from no result
SortCall ==
  /\ sort_out = None
  /\ sort_out' = Some(SortDesc(sort_in))
  /\ UNCHANGED <<durable, pc, locals, history, news_kind, lex_c, lex_label, agg_in,
                 agg_out, sort_in>>

SpecSort == InitSort /\ [][SortCall]_vars

\* ================================================================= claims
LastReport == reports[Len(reports)].rows
Tickers_of(rows) == {rows[k].ticker : k \in 1 .. Len(rows)}
RowsOfRun(r) == {scoreDB[k].ticker : k \in {j \in 1 .. Len(scoreDB) : scoreDB[j].run = r}}
Remaining == Range(tickers) \ Range(start_pt)
InUnit(s) == -s[2] <= s[1] /\ s[1] <= s[2]
FullIdx(arts) == SelectSeq([k \in 1 .. Len(arts) |-> k], LAMBDA k : arts[k].full)

\* C1: a run that reaches the report step reports one row for every ticker in
\* processedTickers, the rows carried over from an earlier checkpoint
\* included, sorted by score descending.
C1_ReportCoversProcessed ==
  (pc = "done" /\ outcome = "reported") =>
    /\ Tickers_of(LastReport) = Range(processed_tickers)
    /\ \A k \in 1 .. Len(LastReport) - 1 :
         ~FracLess(LastReport[k].score, LastReport[k + 1].score)

\* C2: a run whose remaining tickers all have an article with title and
\* description, and that meets no absent indicator and no exhausted fetch,
\* fetches and appends a ScoreStore row for exactly the tickers that were not
\* in processedTickers when it started.
C2_ProcessesExactlyRemaining ==
  ( /\ pc = "done"
    /\ outcome \in {"reported", "aborted"}
    /\ cause \notin {"UnpicklingError", "RetryError", "TypeError"}
    /\ \A t \in Remaining : HasFull(newsDB[t])
    /\ \A t \in DOMAIN rsi_data : rsi_data[t] # None /\ macd_data[t] # None )
  => /\ RowsOfRun(run) = Remaining
     /\ fetched = Remaining

\* C3: the durable checkpoint is at every moment a complete snapshot (or not
\* there yet), never an empty or half-written file.
C3_CheckpointAlwaysComplete == file.kind \in {"absent", "ok"}

\* C4: a run that finds no checkpoint or an unreadable one starts from an
\* empty processedTickers and is not ended by the load.
C4_UnreadableCheckpointNonFatal ==
  (pc # "idle" /\ loaded \in {"absent", "empty", "truncated"}) =>
    (start_pt = <<>> /\ cause # "UnpicklingError")

\* C5: requests_get_with_retry makes at most 7 attempts; a success ends the
\* call with no further attempt; the 7th attempt ends the call either way, a
\* failing one by raising, and a raised call hands no value to its caller.
C5_RetryAtMostSeven ==
  [][ /\ attempt' <= 7
      /\ (res \in {"ok", "raised"} => attempt' \in {attempt, 0})
      /\ ((res = "pending" /\ attempt' = 7) => res' \in {"ok", "raised"})
      /\ (res' = "raised" => attempt' = 7)
      /\ ((pc \in RetryPcs /\ res = "raised") =>
            /\ pc' \in {"done", "idle"}
            /\ rsi_data' \in {rsi_data, <<>>} /\ macd_data' \in {macd_data, <<>>}
            /\ recent_price' \in {recent_price, None}
            /\ hist' \in {hist, <<None, None>>}) ]_vars

\* reached: six failures, then the seventh attempt succeeds
C5_SeventhAttemptSucceeds == attempt = 7 /\ res = "ok"

\* C6: an absent indicator makes the orchestrator skip the ticker; it never
\* ends the batch.
C6_MissingIndicatorDoesNotEndBatch == ~(outcome = "aborted" /\ cause = "TypeError")

\* C7 as stated: a ticker without an article that has both title and
\* description is skipped before any indicator fetch, RSI and MACD included,
\* and before scoring, and gets no row.
C7_SkippedBeforeAnyIndicatorFetch ==
  /\ pc \in RetryPcs \cup {"score", "save_open", "save_dump"} => HasFull(newsDB[cur])
  /\ \A k \in 1 .. Len(scoreDB) : HasFull(newsDB[scoreDB[k].ticker])
  /\ \A k \in 1 .. Len(report_data) : HasFull(newsDB[report_data[k].ticker])

\* C7 as amended: such a ticker gets empty label sequences from both
\* strategies and is skipped before the recent-price and historical-price
\* fetches and before scoring, and gets no ScoreStore row and no report row
\* (its RSI and MACD were fetched in the fetch pass).
C7_SkippedBeforePriceFetch ==
  /\ pc \in {"price", "hist", "score", "save_open", "save_dump"} => HasFull(newsDB[cur])
  /\ (pc = "gpt" /\ ~HasFull(newsDB[cur])) =>
       (vader_sentiments = <<>> /\ gpt_sentiments = <<>>)
  /\ \A k \in 1 .. Len(scoreDB) : HasFull(newsDB[scoreDB[k].ticker])
  /\ \A k \in 1 .. Len(report_data) : HasFull(newsDB[report_data[k].ticker])

\* reached: the first ticker has stored articles, none of them with both
\* fields, its RSI was fetched, and the score pass has moved past it
C7_TickerWasSkipped ==
  /\ pc = "score_loop" /\ i = 2
  /\ newsDB[tickers[1]] # <<>> /\ ~HasFull(newsDB[tickers[1]])
  /\ tickers[1] \in DOMAIN rsi_data
  /\ tickers[1] \notin Range(processed_tickers)

\* the label the five bins of the claim give: left-closed, the top one closed
\* at both ends
ClaimedLabel(c) ==
  IF c < -80 THEN "Very bad"
  ELSE IF c < -35 THEN "Bad"
  ELSE IF c < 35 THEN "Neutral"
  ELSE IF c < 80 THEN "Good"
  ELSE "Very good"

\* C8: every compound score in [-1, 1] gets the label of its bin, 1.0
\* included, without an error.
C8_EveryCompoundLabelled == lex_label # "unset" => lex_label = ClaimedLabel(lex_c)

\* C9: every filtered article has its own budget of 4 calls: it gets Error
\* only after 4 failed calls of its own, and every filtered article is called.
C9_BudgetPerArticle ==
  pc = "gpt" =>
    /\ \A j \in 1 .. Len(gpt_sentiments) :
         gpt_sentiments[j] = "Error" => gpt_calls[FullIdx(newsDB[cur])[j]] = 4
    /\ gi > Len(newsDB[cur]) => Len(gpt_sentiments) = NumFull(newsDB[cur])

C11_ClaimedSignals ==
  (IF agg_in.price > agg_in.high THEN 1 ELSE IF agg_in.price < agg_in.low THEN -1 ELSE 0)
  + (IF agg_in.volume > 10 THEN 1 ELSE IF agg_in.volume < 5 THEN -1 ELSE 0)
  + (IF agg_in.rsi > 70 THEN 1 ELSE IF agg_in.rsi < 30 THEN -1 ELSE 0)
  + (IF agg_in.macd > 0 THEN 1 ELSE IF agg_in.macd < 0 THEN -1 ELSE 0)

C11_AggregateIsMeanOfSix ==
  agg_out # None =>
    /\ agg_out[2] > 0
    /\ agg_out[1] * (12 * agg_in.n)
         = agg_out[2] * (agg_in.vader_total + agg_in.gpt_total
                           + 2 * agg_in.n * C11_ClaimedSignals)
    /\ (agg_in.price \in {agg_in.low, agg_in.high} /\ agg_in.volume \in {5, 10}
          /\ agg_in.rsi \in {30, 70} /\ agg_in.macd = 0)
        => agg_out[1] * (12 * agg_in.n) = agg_out[2] * (agg_in.vader_total + agg_in.gpt_total)
    /\ (agg_in.vader_total = 4 /\ agg_in.gpt_total = 2 /\ agg_in.n = 2
          /\ agg_in.price = 105 /\ agg_in.volume = 12 /\ agg_in.rsi = 75
          /\ agg_in.macd = 5)
        => agg_out = <<11, 12>>

\* the example of the claim has been computed
C11_ExampleComputed ==
  /\ agg_out = <<11, 12>>
  /\ agg_in.vader_total = 4 /\ agg_in.gpt_total = 2 /\ agg_in.n = 2
  /\ agg_in.price = 105 /\ agg_in.volume = 12 /\ agg_in.rsi = 75 /\ agg_in.macd = 5

\* C12: the news fetch runs under the bounded retry executor like the RSI and
\* MACD fetches: a news request that fails is attempted again and, once the
\* attempts are used up, ends as a failure; it never leaves the fetch pass
\* going on with an empty article list after one failed attempt.
C12_NewsFetchRetried ==
  ~(/\ news_kind = "exception"
    /\ pc = "rsi" /\ outcome = "running"
    /\ news_data[cur] = <<>>)

\* C13: a fetch that has used up its retries fails its ticker only: the run
\* goes on, every other ticker that was not yet processed and has a classifiable
\* article still gets its ScoreStore row, and the run ends with its report.
C13_ExhaustedFetchFailsOneTicker ==
  (pc = "done" /\ cause = "RetryError") =>
    /\ reports # <<>> /\ reports[Len(reports)].run = run
    /\ \A t \in Remaining \ {cur} : HasFull(newsDB[t]) => t \in RowsOfRun(run)

\* C14: the checkpoint is written right after each ticker's ScoreStore row, so
\* whenever the process may die at most one ticker (the one in flight) has a
\* ScoreStore row of this run and is missing from the processedTickers of the
\* checkpoint on disk, and every ticker in the processedTickers on disk has a
\* ScoreStore row.
C14_DurableProcessed == IF file.kind = "ok" THEN Range(file.pt) ELSE {}

C14_LossWindowOneTicker ==
  /\ Cardinality(RowsOfRun(run) \ C14_DurableProcessed) <= 1
  /\ \A t \in C14_DurableProcessed : \E k \in 1 .. Len(scoreDB) : scoreDB[k].ticker = t

\* C15: when an invocation died after a ticker's news was stored and before its
\* checkpoint write, the next invocation, given the same provider responses and
\* the same label for each article, stores for that ticker the score that an
\* invocation without the interruption would have stored: the second copy of
\* the article in news_articles does not change the score.
\* The ticker is listed once, its table holds the fetched article twice, and
\* all generative labels agree; the uninterrupted score is that of one article.
C15_DuplicatedArticle ==
  /\ Cardinality({k \in 1 .. Len(tickers) : tickers[k] = cur}) = 1
  /\ Len(news_data[cur]) = 1 /\ news_data[cur][1].full
  /\ newsDB[cur] = news_data[cur] \o news_data[cur]
  /\ \A k \in 1 .. Len(gpt_sentiments) : gpt_sentiments[k] = gpt_sentiments[1]

C15_UninterruptedScore ==
  calculate_aggregated_score(SumWeights(<<VaderLabel(news_data[cur][1].c)>>),
    SumWeights(<<gpt_sentiments[1]>>), hist[2][1], hist[1][1], recent_price[1],
    Len(news_data[cur]), rsi_data[cur][1], macd_data[cur][1], 1)

C15_DuplicatesKeepScore ==
  (pc = "save_open" /\ C15_DuplicatedArticle) =>
    scoreDB[Len(scoreDB)].score = C15_UninterruptedScore

\* C16: the sort before the report leaves the rows in non-increasing order of
\* score, keeps rows of equal score in the order in which they were appended,
\* and only reorders: the sorted list holds exactly the appended rows.
C16_Pos(s, r) == CHOOSE k \in 1 .. Len(s) : s[k] = r

C16_SortStableDescending ==
  sort_out # None =>
    LET out == sort_out[1]
    IN /\ Len(out) = Len(sort_in)
       /\ Range(out) = Range(sort_in)
       /\ \A k \in 1 .. Len(out) - 1 : ~FracLess(out[k].score, out[k + 1].score)
       /\ \A j, k \in 1 .. Len(sort_in) :
            (j < k /\ sort_in[j].score = sort_in[k].score)
              => C16_Pos(out, sort_in[j]) < C16_Pos(out, sort_in[k])

\* three rows, the first and the last tie below the middle one: the sort moved
\* the middle row to the front and kept the tie in its order
C16_TieSorted ==
  /\ sort_out # None /\ Len(sort_in) = 3
  /\ sort_in[1].score = sort_in[3].score
  /\ FracLess(sort_in[1].score, sort_in[2].score)
  /\ sort_out[1] = <<sort_in[2], sort_in[1], sort_in[3]>>

\* C17: a ticker skipped in the score pass because a sentiment strategy gave no
\* label is not appended to processed_tickers and no checkpoint is written for
\* it; a ticker with no classifiable article is never in processed_tickers, in
\* memory or on disk, so a later run that comes to it does not pass it over:
\* the fetch pass fetches it and the score pass classifies it again.
C17_SkipStep ==
  (pc = "gpt" /\ gi > Len(newsDB[cur])
     /\ (Len(vader_sentiments) = 0 \/ Len(gpt_sentiments) = 0))
  => /\ pc' \in {"score_loop", "idle"}
     /\ file' = file
     /\ pc' = "score_loop" => processed_tickers' = processed_tickers /\ i' = i + 1

C17_NotPassedOver ==
  (pc \in {"fetch_loop", "score_loop"} /\ i <= Len(tickers) /\ ~HasFull(newsDB[cur]))
  => pc' \in {IF pc = "fetch_loop" THEN "rsi" ELSE "gpt", "idle"}

C17_SkippedStaysUnprocessed ==
  /\ [][C17_SkipStep /\ C17_NotPassedOver]_vars
  /\ [](\A t \in Tickers :
         ~HasFull(newsDB[t]) => t \notin Range(processed_tickers) \cup Range(file.pt))

\* run 1 ended with its report and left the ticker without a classifiable
\* article; run 2 has fetched and classified it again and is about to skip it
C17_SkippedAgain ==
  /\ run = 2 /\ reports # <<>> /\ reports[1].run = 1
  /\ pc = "gpt" /\ gi > Len(newsDB[cur])
  /\ newsDB[cur] # <<>> /\ ~HasFull(newsDB[cur])
  /\ Len(vader_sentiments) = 0

\* C18: within one run at most one ScoreStore row is appended for a ticker, and
\* processed_tickers, in memory and in the checkpoint, never holds a ticker
\* twice, whatever runs came before and also when Tickers.csv lists a symbol
\* more than once.
C18_NoRepeat(s) == \A j, k \in 1 .. Len(s) : s[j] = s[k] => j = k

C18_OneRowPerTickerPerRun ==
  /\ \A j, k \in 1 .. Len(scoreDB) :
       (scoreDB[j].ticker = scoreDB[k].ticker /\ scoreDB[j].run = scoreDB[k].run)
         => j = k
  /\ C18_NoRepeat(processed_tickers)
  /\ C18_NoRepeat(file.pt)

\* the list names A twice; the run scored A once, passed over the second
\* entry and reported
C18_DuplicateSymbolScoredOnce ==
  /\ tickers = <<"A", "A">>
  /\ pc = "done" /\ outcome = "reported"
  /\ processed_tickers = <<"A">>
  /\ \E k \in 1 .. Len(scoreDB) : scoreDB[k].ticker = "A" /\ scoreDB[k].run = run

\* C19: after every checkpoint write, over any sequence of runs, the tickers
\* that have a row in the checkpoint's report rows are exactly the checkpoint's
\* processed tickers, with one row for each.
C19_CheckpointRowsMatchProcessed ==
  file.kind = "ok" =>
    /\ Tickers_of(file.rd) = Range(file.pt)
    /\ Len(file.rd) = Len(file.pt)

\* C20: the generative strategy returns one label for every filtered article,
\* so when it returns its list is as long as the lexicon strategy's, which is
\* the num_articles that divides gpt_total, for any number of articles and any
\* pattern of failing provider calls.
C20_OneGenerativeLabelPerArticle ==
  (pc = "gpt" /\ gi > Len(newsDB[cur])) =>
    /\ Len(gpt_sentiments) = NumFull(newsDB[cur])
    /\ Len(gpt_sentiments) = Len(vader_sentiments)

====
